---- MODULE Spec2Model ----
(***************************************************************************)
(* A model of src/src/mrt_parse.rs of asmap-rs:                            *)
(*   as_path_from_bgp_attributes  the BGP path-attribute decoder           *)
(*   parse_mrt                    the aggregation pass over RIB entries    *)
(*   find_common_suffix           the common leading run of a PathSet      *)
(*   find_as_bottleneck           the last ASN of that run per Address     *)
(* A Rust panic (Vec::remove / split_off / index out of range, assert!,    *)
(* panic!) is an outcome of its own, distinct from an Err value.           *)
(***************************************************************************)
EXTENDS Integers, Sequences, FiniteSets, TLC

VARIABLES
    input,                    \* decoder harness: the description the blob is encoded from
    bgp_attributes,           \* decoder harness: the attribute blob handed to the decoder
    decoded,                  \* decoder harness: what as_path_from_bgp_attributes returned
    entries,                  \* parse_mrt: the RIB entries the reader delivers, in order
    cursor,                   \* parse_mrt: the next RIB entry (1-based)
    addresses,                \* parse_mrt: Vec<Address> filled from the peer index table
    mrt_hm,                   \* HashMap<Address, HashSet<Vec<u32>>>
    hm0,                      \* the map as it was when find_as_bottleneck was first called
    pc,                       \* where the program is
    panic_kind,               \* which panic ended the run ("" while none)
    todo,                     \* find_common_suffix: keys mrt_hm.iter() has not yielded yet
    prefix,                   \* find_common_suffix: the key being processed
    as_paths_sorted,          \* find_common_suffix: as_paths_sorted
    idx,                      \* find_common_suffix: next element of as_paths_sorted (1-based)
    rev_common_suffix,        \* find_common_suffix: rev_common_suffix
    prefix_to_common_suffix,  \* HashMap<Address, Vec<u32>>
    pop_todo,                 \* find_as_bottleneck: keys its for loop has not yielded yet
    as_bottleneck,            \* HashMap<Address, u32>
    prev                      \* what an earlier call of find_as_bottleneck returned

vars == <<input, bgp_attributes, decoded, entries, cursor, addresses, mrt_hm, hm0,
          pc, panic_kind, todo, prefix, as_paths_sorted, idx, rev_common_suffix,
          prefix_to_common_suffix, pop_todo, as_bottleneck, prev>>

(***************************************************************************)
(* Bounds of the model.                                                    *)
(***************************************************************************)
MaxSkips == 2      \* skippable records in front of the AS_PATH record
MaxAsns == 2       \* ASNs in one encoded segment
MaxDrop == 12      \* bytes cut off the end of an encoded blob
MaxEntries == 3    \* RIB entries of one aggregation pass
MaxLen == 3        \* length of an AS_PATH in a hand-built map
MaxObs == 2        \* (Address, AS_PATH) pairs a hand-built map of two Addresses is made of
MaxPaths == 3      \* AS_PATHs in the PathSet of a hand-built map of one Address

(***************************************************************************)
(* Sequence helpers.                                                       *)
(***************************************************************************)
Drop(s, n) == SubSeq(s, n + 1, Len(s))
Take(s, n) == SubSeq(s, 1, n)
Last(s) == s[Len(s)]
Front(s) == SubSeq(s, 1, Len(s) - 1)
Min(a, b) == IF a <= b THEN a ELSE b
Fill(n, b) == [i \in 1..n |-> b]
SeqsUpTo(S, n) == UNION {[1..k -> S] : k \in 0..n}
EmptyMap == [a \in {} |-> {}]

(***************************************************************************)
(* Result<Vec<u32>, Error> of the decoder, plus the panic outcome.         *)
(***************************************************************************)
NoResult == [tag |-> "None", as_path |-> <<>>, error |-> "", what |-> "", code |-> 0]
Ok(as_path) == [tag |-> "Ok", as_path |-> as_path, error |-> "", what |-> "", code |-> 0]
MissingPathAttribute(what) ==
    [tag |-> "Err", as_path |-> <<>>, error |-> "MissingPathAttribute", what |-> what, code |-> 0]
UnknownAsValue(v) ==
    [tag |-> "Err", as_path |-> <<>>, error |-> "UnknownAsValue", what |-> "", code |-> v]
UnknownTypeCode(v) ==
    [tag |-> "Err", as_path |-> <<>>, error |-> "UnknownTypeCode", what |-> "", code |-> v]
Panicked(what) == [tag |-> "Panic", as_path |-> <<>>, error |-> "", what |-> what, code |-> 0]

(***************************************************************************)
(* helper::read_be_u16 / helper::read_be_u32 (crate::helper).              *)
(***************************************************************************)
read_be_u16(b) == b[1] * 256 + b[2]
read_be_u32(b) == ((b[1] * 256 + b[2]) * 256 + b[3]) * 256 + b[4]

(***************************************************************************)
(* as_path_from_bgp_attributes.  Vec::remove(0) panics on an empty vector, *)
(* Vec::split_off(at) panics when at > len.                                *)
(***************************************************************************)
\* variant: the length field is read as one byte whatever the flag
ExtendedLengthAlwaysOneByte(flag) == FALSE
ExtendedLength(flag) == (flag \div 16) % 2 = 1

Skippable(type_code) == type_code = 1 \/ type_code \in 3..16

RECURSIVE read_asns(_, _, _)
read_asns(num_asn, bytes, as_path) ==
    IF num_asn = 0 THEN Ok(as_path)
    ELSE IF Len(bytes) < 4 THEN Panicked("split_off")
    ELSE read_asns(num_asn - 1, Drop(bytes, 4),
                   Append(as_path, read_be_u32(Take(bytes, 4))))

RECURSIVE decode_loop(_)
decode_loop(bytes) ==
    IF Len(bytes) < 2 THEN Panicked("remove")              \* flag, type_code
    ELSE
    LET flag == bytes[1]
        type_code == bytes[2]
        lenbytes == IF ExtendedLength(flag) THEN 2 ELSE 1
    IN  IF Len(bytes) < 2 + lenbytes THEN Panicked("remove")
        ELSE
        LET attribute_length == IF ExtendedLength(flag)
                                THEN read_be_u16(SubSeq(bytes, 3, 4))
                                ELSE bytes[3]
            rest == Drop(bytes, 2 + lenbytes)
        IN  IF Skippable(type_code) THEN
                IF attribute_length > Len(rest) THEN Panicked("split_off")
                ELSE IF Drop(rest, attribute_length) = <<>>
                     THEN MissingPathAttribute("AS Path")
                     ELSE decode_loop(Drop(rest, attribute_length))
            ELSE IF type_code = 2 THEN
                IF rest = <<>> THEN Panicked("remove")      \* as_set_indicator
                ELSE IF rest[1] = 1 THEN decode_loop(Drop(rest, 1))   \* continue
                ELSE IF rest[1] = 2 THEN
                    IF Len(rest) < 2 THEN Panicked("remove")          \* num_asn
                    ELSE read_asns(rest[2], Drop(rest, 2), <<>>)
                ELSE UnknownAsValue(rest[1])
            ELSE UnknownTypeCode(type_code)

as_path_from_bgp_attributes(bytes) ==
    IF bytes = <<>>
    THEN MissingPathAttribute("all attributes. BGP path attributes vector is empty.")
    ELSE decode_loop(bytes)

(***************************************************************************)
(* The wire encoding the decoder's inputs are built from: a blob is k      *)
(* skippable records, then one final record, then trailing bytes, with     *)
(* some bytes cut off its end.                                             *)
(***************************************************************************)
AsnVals == {1, 3356}
SkipDescs ==
    { [ext |-> FALSE, type |-> 1,  len |-> 0],
      [ext |-> FALSE, type |-> 3,  len |-> 2],
      [ext |-> FALSE, type |-> 16, len |-> 1],
      [ext |-> TRUE,  type |-> 1,  len |-> 256],
      [ext |-> TRUE,  type |-> 16, len |-> 1],
      [ext |-> TRUE,  type |-> 3,  len |-> 0] }
Kinds == {"seq", "set", "badseg", "badtype", "none"}

be_u32_bytes(v) == <<v \div 16777216, (v \div 65536) % 256, (v \div 256) % 256, v % 256>>

RECURSIVE EncodeAsns(_)
EncodeAsns(asns) ==
    IF asns = <<>> THEN <<>> ELSE be_u32_bytes(asns[1]) \o EncodeAsns(Tail(asns))

EncodeSkip(d) ==
    IF d.ext
    THEN <<80, d.type, d.len \div 256, d.len % 256>> \o Fill(d.len, 2)
    ELSE <<64, d.type, d.len>> \o Fill(d.len, 2)

RECURSIVE EncodeSkips(_)
EncodeSkips(skips) ==
    IF skips = <<>> THEN <<>> ELSE EncodeSkip(skips[1]) \o EncodeSkips(Tail(skips))

EncodeSegment(indicator, asns) ==
    <<64, 2, 2 + 4 * Len(asns), indicator, Len(asns)>> \o EncodeAsns(asns)

EncodeFinal(kind, asns) ==
    CASE kind = "seq"     -> EncodeSegment(2, asns)
      [] kind = "set"     -> EncodeSegment(1, asns)
      [] kind = "badseg"  -> EncodeSegment(3, asns)
      [] kind = "badtype" -> <<64, 17, 0>>
      [] OTHER            -> <<>>

Trails == { <<>>, EncodeSegment(2, <<9>>) }

Encode(in) == EncodeSkips(in.skips) \o EncodeFinal(in.kind, in.asns) \o in.trail

Inputs ==
    { in \in [skips : SeqsUpTo(SkipDescs, MaxSkips), kind : Kinds,
              asns : SeqsUpTo(AsnVals, MaxAsns), trail : Trails, drop : {0}] :
        in.kind \in {"badtype", "none"} => in.asns = <<>> }


(***************************************************************************)
(* parse_mrt.  The reader's TABLE_DUMP_V2 records are flattened: the peer  *)
(* index table first, then one RIB entry per (peer_index, prefix_length,   *)
(* attributes).  peer_index is always an index of the peer table.          *)
(***************************************************************************)
PeerIps == <<"195.66.225.77", "5.57.81.186">>
PrefixLengths == {0, 24}
NoMask == -1
Address(ip, mask) == [ip |-> ip, mask |-> mask]

NoAddress == Address("", NoMask)

\* a blob a RIB entry may carry, with what it was encoded from: `valid` when
\* it is a well-formed attribute list with an AS_SEQUENCE segment of `asns`
RibCases ==
    { [attributes |-> EncodeSegment(2, <<64271, 62240>>),
       valid |-> TRUE, asns |-> <<64271, 62240>>],
      [attributes |-> EncodeSegment(2, <<64271, 64271, 174>>),
       valid |-> TRUE, asns |-> <<64271, 64271, 174>>],
      [attributes |-> EncodeSkip([ext |-> FALSE, type |-> 1, len |-> 1])
                          \o EncodeSegment(2, <<64271>>),
       valid |-> TRUE, asns |-> <<64271>>],
      [attributes |-> EncodeSegment(2, <<>>),                     \* AS_SEQUENCE of 0 ASNs
       valid |-> TRUE, asns |-> <<>>],
      [attributes |-> <<64, 17, 0>>,                              \* unknown type code
       valid |-> FALSE, asns |-> <<>>],
      [attributes |-> Take(EncodeSegment(2, <<64271, 174>>), 11), \* second ASN cut short
       valid |-> FALSE, asns |-> <<>>] }

RibEntries ==
    { [peer_index |-> i, prefix_length |-> m, attributes |-> c.attributes,
       valid |-> c.valid, asns |-> c.asns] :
        i \in 1..Len(PeerIps), m \in PrefixLengths, c \in RibCases }

\* Vec::dedup: removes consecutive repeated elements
RECURSIVE dedup(_)
dedup(v) ==
    IF Len(v) < 2 THEN v
    ELSE IF v[1] = v[2] THEN dedup(Tail(v))
    ELSE <<v[1]>> \o dedup(Tail(v))

\* mrt_hm.entry(key).or_insert_with(HashSet::new).insert(value)
Insert(hm, key, value) ==
    [a \in DOMAIN hm \cup {key} |->
        IF a = key THEN (IF key \in DOMAIN hm THEN hm[key] ELSE {}) \cup {value}
        ELSE hm[a]]

(***************************************************************************)
(* find_common_suffix, one PathSet.                                        *)
(***************************************************************************)
\* as_paths.iter().collect(): every order a HashSet may yield its elements in
RECURSIVE IterOrders(_)
IterOrders(S) ==
    IF S = {} THEN {<<>>}
    ELSE UNION {{<<x>> \o rest : rest \in IterOrders(S \ {x})} : x \in S}

\* Vec::sort_by(|a, b| a.len().cmp(&b.len())): a stable sort, shortest first
RECURSIVE InsertByLen(_, _)
InsertByLen(sorted, p) ==
    IF sorted = <<>> THEN <<p>>
    ELSE IF Len(Last(sorted)) <= Len(p) THEN Append(sorted, p)
    ELSE Append(InsertByLen(Front(sorted), p), Last(sorted))

RECURSIVE sort_by_len_from(_, _)
sort_by_len_from(sorted, v) ==
    IF v = <<>> THEN sorted ELSE sort_by_len_from(InsertByLen(sorted, v[1]), Tail(v))

\* variants: the sort left out; the sort in descending order
Unsorted(v) == v
RECURSIVE LongestFirst(_)
LongestFirst(v) ==
    IF v = <<>> THEN <<>>
    ELSE LET s == sort_by_len_from(<<>>, v) IN <<Last(s)>> \o LongestFirst(Front(s))
sort_by_len(v) == sort_by_len_from(<<>>, v)

\* rev_common_suffix.first() == rev_as_path.first(), on Option<&u32>
\* (variant: the assert! left out)
AssertAlwaysPasses(common, path) == TRUE
FirstsEqual(common, path) ==
    IF common = <<>> \/ path = <<>> THEN common = <<>> /\ path = <<>>
    ELSE common[1] = path[1]

\* for i in 1..rev_common_suffix.len() { if rev_as_path[i] != rev_common_suffix[i]
\*     { rev_common_suffix.truncate(i); break; } }      (j = i + 1, 1-based)
\* the result is the new rev_common_suffix, or "index" when rev_as_path[i] is out of range
RECURSIVE scan_from(_, _, _)
scan_from(j, common, path) ==
    IF j > Len(common) THEN [panic |-> "", common |-> common]
    ELSE IF j > Len(path) THEN [panic |-> "index", common |-> common]
    ELSE IF path[j] # common[j] THEN [panic |-> "", common |-> Take(common, j - 1)]
    ELSE scan_from(j + 1, common, path)

\* variant: truncate(i + 1), keeping the mismatching element
ScanTruncatesAfterMismatch(common, path) ==
    LET r == scan_from(2, common, path)
    IN  IF r.panic = "" /\ Len(r.common) < Len(common)
        THEN [panic |-> "", common |-> Take(common, Len(r.common) + 1)]
        ELSE r
scan(common, path) == scan_from(2, common, path)

\* as_path.pop()
\* (variant: the first element instead of the last)
PopFirst(v) == v[1]
pop(v) == v[Len(v)]


(***************************************************************************)
(* Initial states.                                                         *)
(***************************************************************************)
PathAsns == {64271, 62240}
Paths == SeqsUpTo(PathAsns, MaxLen)
AnalysisAddrs == {Address("195.66.225.77", 0), Address("5.57.81.186", 24)}

RECURSIVE SubsetsUpTo(_, _)
SubsetsUpTo(S, n) ==
    IF n = 0 THEN {{}}
    ELSE LET smaller == SubsetsUpTo(S, n - 1)
         IN  smaller \cup {s \cup {x} : s \in smaller, x \in S}

MapOf(obs) == [a \in {o[1] : o \in obs} |-> {o[2] : o \in {q \in obs : q[1] = a}}]

DecoderIdle ==
    /\ input = [skips |-> <<>>, kind |-> "none", asns |-> <<>>, trail |-> <<>>, drop |-> 0]
    /\ bgp_attributes = <<>>
    /\ decoded = NoResult

ParseIdle ==
    /\ entries = <<>>
    /\ cursor = 1
    /\ addresses = [i \in 1..Len(PeerIps) |-> Address(PeerIps[i], NoMask)]

AnalysisIdle ==
    /\ panic_kind = ""
    /\ todo = {}
    /\ prefix = NoAddress
    /\ as_paths_sorted = <<>>
    /\ idx = 1
    /\ rev_common_suffix = <<>>
    /\ prefix_to_common_suffix = EmptyMap
    /\ pop_todo = {}
    /\ as_bottleneck = EmptyMap
    /\ prev = [valid |-> FALSE, result |-> EmptyMap]

InitDecode ==
    /\ \E in \in Inputs : \E d \in 0..Min(MaxDrop, Len(Encode(in))) :
          /\ input = [in EXCEPT !.drop = d]
          /\ bgp_attributes = Take(Encode(in), Len(Encode(in)) - d)
    /\ decoded = NoResult
    /\ ParseIdle /\ AnalysisIdle
    /\ mrt_hm = EmptyMap /\ hm0 = EmptyMap
    /\ pc = "decode"

InitParse ==
    /\ DecoderIdle /\ AnalysisIdle
    /\ entries \in SeqsUpTo(RibEntries, MaxEntries)
    /\ cursor = 1
    /\ addresses = [i \in 1..Len(PeerIps) |-> Address(PeerIps[i], NoMask)]
    /\ mrt_hm = EmptyMap /\ hm0 = EmptyMap
    /\ pc = "parse"

InitAnalyze ==
    /\ DecoderIdle /\ ParseIdle /\ AnalysisIdle
    /\ \/ \E obs \in SubsetsUpTo(AnalysisAddrs \X Paths, MaxObs - 1) :
             \E o \in AnalysisAddrs \X Paths : mrt_hm = MapOf(obs \cup {o})
       \/ \E S \in SubsetsUpTo(Paths, MaxPaths - 1) : \E p \in Paths :
             mrt_hm = MapOf({Address("195.66.225.77", 0)} \X (S \cup {p}))
    /\ hm0 = mrt_hm
    /\ pc = "ready"

decoderVars == <<input, bgp_attributes>>
parseVars == <<entries, cursor, addresses>>
analysisVars == <<panic_kind, todo, prefix, as_paths_sorted, idx, rev_common_suffix,
                  prefix_to_common_suffix, pop_todo, as_bottleneck, prev>>

(***************************************************************************)
(* The decoder applied to one blob.                                        *)
(***************************************************************************)
decode_blob ==
    /\ pc = "decode"
    /\ decoded' = as_path_from_bgp_attributes(bgp_attributes)
    /\ pc' = "decoded"
    /\ UNCHANGED <<decoderVars, parseVars, analysisVars, mrt_hm, hm0>>

(***************************************************************************)
(* parse_mrt: the body of `for rib_entry in entry.entries`, and the return *)
(***************************************************************************)
parse_rib_entry ==
    /\ pc = "parse"
    /\ cursor <= Len(entries)
    /\ LET rib_entry == entries[cursor]
           index == rib_entry.peer_index
           addrs == [addresses EXCEPT ![index].mask = rib_entry.prefix_length]
           r == as_path_from_bgp_attributes(rib_entry.attributes)
       IN  /\ addresses' = addrs
           /\ decoded' = r
           /\ IF r.tag = "Panic"
              THEN /\ pc' = "panic"
                   /\ panic_kind' = r.what
                   /\ UNCHANGED <<cursor, mrt_hm>>
              ELSE /\ cursor' = cursor + 1
                   /\ mrt_hm' = IF r.tag = "Ok"
                                THEN Insert(mrt_hm, addrs[index], dedup(r.as_path))
                                ELSE mrt_hm
                   /\ UNCHANGED <<pc, panic_kind>>
    /\ UNCHANGED <<decoderVars, entries, hm0, todo, prefix, as_paths_sorted, idx,
                   rev_common_suffix, prefix_to_common_suffix, pop_todo, as_bottleneck, prev>>

parse_return ==
    /\ pc = "parse"
    /\ cursor > Len(entries)
    /\ pc' = "ready"
    /\ hm0' = mrt_hm
    /\ UNCHANGED <<decoderVars, decoded, parseVars, analysisVars, mrt_hm>>

(***************************************************************************)
(* find_as_bottleneck and find_common_suffix.                              *)
(***************************************************************************)
find_as_bottleneck_call ==
    \* the first call, or a second call on the same map once the first has returned
    /\ pc = "ready" \/ (pc = "done" /\ ~prev.valid)
    /\ prev' = IF pc = "done" THEN [valid |-> TRUE, result |-> as_bottleneck] ELSE prev
    /\ prefix_to_common_suffix' = EmptyMap
    /\ as_bottleneck' = EmptyMap
    /\ todo' = DOMAIN mrt_hm
    /\ pc' = "suffix"
    /\ UNCHANGED <<decoderVars, decoded, parseVars, mrt_hm, hm0, panic_kind, prefix,
                   as_paths_sorted, idx, rev_common_suffix, pop_todo>>

\* for (prefix, as_paths) in mrt_hm.iter(): collect, sort, seed with as_paths_sorted[0]
find_common_suffix_next_prefix ==
    /\ pc = "suffix"
    /\ \E p \in todo : \E order \in IterOrders(mrt_hm[p]) :
          LET sorted == sort_by_len(order)
          IN  /\ prefix' = p
              /\ as_paths_sorted' = sorted
              /\ IF sorted = <<>>
                 THEN /\ pc' = "panic" /\ panic_kind' = "index"
                      /\ UNCHANGED <<rev_common_suffix, idx>>
                 ELSE /\ rev_common_suffix' = sorted[1]
                      /\ idx' = 2
                      /\ pc' = "scan"
                      /\ UNCHANGED panic_kind
    /\ UNCHANGED <<decoderVars, decoded, parseVars, mrt_hm, hm0, todo,
                   prefix_to_common_suffix, pop_todo, as_bottleneck, prev>>

\* the body of `for as_path in as_paths_sorted.iter().skip(1)`
find_common_suffix_compare ==
    /\ pc = "scan"
    /\ idx <= Len(as_paths_sorted)
    /\ LET rev_as_path == as_paths_sorted[idx]
       IN  IF ~FirstsEqual(rev_common_suffix, rev_as_path)
           THEN /\ pc' = "panic" /\ panic_kind' = "assert"
                /\ UNCHANGED <<rev_common_suffix, idx>>
           ELSE LET r == scan(rev_common_suffix, rev_as_path)
                IN  IF r.panic # ""
                    THEN /\ pc' = "panic" /\ panic_kind' = r.panic
                         /\ UNCHANGED <<rev_common_suffix, idx>>
                    ELSE /\ rev_common_suffix' = r.common
                         /\ idx' = idx + 1
                         /\ UNCHANGED <<pc, panic_kind>>
    /\ UNCHANGED <<decoderVars, decoded, parseVars, mrt_hm, hm0, todo, prefix,
                   as_paths_sorted, prefix_to_common_suffix, pop_todo, as_bottleneck, prev>>

\* prefix_to_common_suffix.entry(*prefix).or_insert(rev_common_suffix)
find_common_suffix_record ==
    /\ pc = "scan"
    /\ idx > Len(as_paths_sorted)
    /\ prefix_to_common_suffix' =
          IF prefix \in DOMAIN prefix_to_common_suffix THEN prefix_to_common_suffix
          ELSE [a \in DOMAIN prefix_to_common_suffix \cup {prefix} |->
                   IF a = prefix THEN rev_common_suffix ELSE prefix_to_common_suffix[a]]
    /\ todo' = todo \ {prefix}
    /\ pc' = "suffix"
    \* the locals of the loop body go out of scope
    /\ prefix' = NoAddress
    /\ as_paths_sorted' = <<>>
    /\ idx' = 1
    /\ rev_common_suffix' = <<>>
    /\ UNCHANGED <<decoderVars, decoded, parseVars, mrt_hm, hm0, panic_kind, pop_todo,
                   as_bottleneck, prev>>

\* find_common_suffix returns Ok(()); find_as_bottleneck starts its own loop
find_common_suffix_return ==
    /\ pc = "suffix"
    /\ todo = {}
    /\ pop_todo' = DOMAIN prefix_to_common_suffix
    /\ pc' = "pop"
    /\ UNCHANGED <<decoderVars, decoded, parseVars, mrt_hm, hm0, panic_kind, todo, prefix,
                   as_paths_sorted, idx, rev_common_suffix, prefix_to_common_suffix,
                   as_bottleneck, prev>>

\* the body of `for (addr, mut as_path) in prefix_to_common_suffix`
find_as_bottleneck_pop ==
    /\ pc = "pop"
    /\ \E addr \in pop_todo :
          LET as_path == prefix_to_common_suffix[addr]
          IN  IF as_path = <<>>
              THEN /\ pc' = "panic" /\ panic_kind' = "no asn"
                   /\ UNCHANGED <<as_bottleneck, pop_todo>>
              ELSE /\ as_bottleneck' =
                        [a \in DOMAIN as_bottleneck \cup {addr} |->
                            IF a = addr THEN pop(as_path) ELSE as_bottleneck[a]]
                   /\ pop_todo' = pop_todo \ {addr}
                   /\ UNCHANGED <<pc, panic_kind>>
    /\ UNCHANGED <<decoderVars, decoded, parseVars, mrt_hm, hm0, todo, prefix,
                   as_paths_sorted, idx, rev_common_suffix, prefix_to_common_suffix, prev>>

find_as_bottleneck_return ==
    /\ pc = "pop"
    /\ pop_todo = {}
    /\ pc' = "done"
    /\ UNCHANGED <<decoderVars, decoded, parseVars, mrt_hm, hm0, panic_kind, todo, prefix,
                   as_paths_sorted, idx, rev_common_suffix, prefix_to_common_suffix,
                   pop_todo, as_bottleneck, prev>>

Analyze ==
    \/ find_as_bottleneck_call
    \/ find_common_suffix_next_prefix
    \/ find_common_suffix_compare
    \/ find_common_suffix_record
    \/ find_common_suffix_return
    \/ find_as_bottleneck_pop
    \/ find_as_bottleneck_return

NextDecode == decode_blob
NextParse == parse_rib_entry \/ parse_return \/ Analyze
NextAnalyze == Analyze

SpecDecode == InitDecode /\ [][NextDecode]_vars
SpecParse == InitParse /\ [][NextParse]_vars
SpecAnalyze == InitAnalyze /\ [][NextAnalyze]_vars


(***************************************************************************)
(* Definitions the properties are stated with.  None of them uses the      *)
(* operators that model the code.                                          *)
(***************************************************************************)
IsPrefixOf(s, p) == Len(s) <= Len(p) /\ \A i \in 1..Len(s) : s[i] = p[i]
\* the common leading runs of S are the leading runs of any one of its paths
\* that all the others start with
CommonPrefixLengths(S) ==
    LET p == CHOOSE x \in S : TRUE
    IN  {n \in 0..Len(p) : \A q \in S : IsPrefixOf(Take(p, n), q)}
LongestCommonPrefix(S) ==
    LET p == CHOOSE x \in S : TRUE
        n == CHOOSE k \in CommonPrefixLengths(S) : \A j \in CommonPrefixLengths(S) : j <= k
    IN  Take(p, n)

\* p with every element that equals its predecessor left out
KeptIdx(p) == {i \in 1..Len(p) : i = 1 \/ p[i] # p[i - 1]}
Collapse(p) ==
    [k \in 1..Cardinality(KeptIdx(p)) |->
        p[CHOOSE i \in KeptIdx(p) : Cardinality({j \in KeptIdx(p) : j <= i}) = k]]

ExpectedMap ==
    MapOf({ <<Address(PeerIps[entries[k].peer_index], entries[k].prefix_length),
              Collapse(entries[k].asns)>> : k \in {j \in 1..Len(entries) : entries[j].valid} })

OnlyPath(a) == CHOOSE p \in mrt_hm[a] : TRUE

(***************************************************************************)
(* C1.  In a map whose PathSets are non-empty, whose paths are non-empty   *)
(* and where the paths of one Address share their first element,           *)
(* find_common_suffix records for each Address the longest common leading  *)
(* run of its paths and find_as_bottleneck returns the last element of     *)
(* that run; neither panics.                                               *)
(***************************************************************************)
C1_Pre ==
    \A a \in DOMAIN mrt_hm :
        /\ mrt_hm[a] # {}
        /\ \A p, q \in mrt_hm[a] : p # <<>> /\ p[1] = q[1]

C1_CommonRunIsLongestCommonPrefix ==
    C1_Pre =>
        /\ pc # "panic"
        /\ \A a \in DOMAIN prefix_to_common_suffix :
              prefix_to_common_suffix[a] = LongestCommonPrefix(mrt_hm[a])
        /\ \A a \in DOMAIN as_bottleneck :
              as_bottleneck[a] = Last(LongestCommonPrefix(mrt_hm[a]))
        /\ pc = "done" => DOMAIN as_bottleneck = DOMAIN mrt_hm

C1_Witness ==
    /\ pc = "done"
    /\ C1_Pre
    /\ \E a \in DOMAIN mrt_hm :
          /\ Cardinality(mrt_hm[a]) >= 2
          /\ Len(prefix_to_common_suffix[a]) = 2
          /\ \A p \in mrt_hm[a] : Len(p) > 2
          /\ as_bottleneck[a] = prefix_to_common_suffix[a][2]

(***************************************************************************)
(* C5.  When some PathSet holds two paths whose first elements differ, the *)
(* run never gets past find_common_suffix: no bottleneck is ever produced, *)
(* no result is returned, and the only panic is the failed assert!.        *)
(* (In "ready", "suffix" and "scan" a step is always enabled, so the run   *)
(* ends in that panic.)                                                    *)
(***************************************************************************)
C5_Pre ==
    \E a \in DOMAIN mrt_hm : \E p, q \in mrt_hm[a] :
        p # <<>> /\ q # <<>> /\ p[1] # q[1]

C5_FirstHopMismatchAborts ==
    C5_Pre =>
        /\ pc \in {"ready", "suffix", "scan", "panic"}
        /\ as_bottleneck = EmptyMap
        /\ pc = "panic" => panic_kind = "assert"

C5_Witness ==
    /\ C5_Pre
    /\ pc = "panic"
    /\ panic_kind = "assert"
    /\ as_bottleneck = EmptyMap

(***************************************************************************)
(* C7, as the spec states it: a PathSet of exactly one path (of two or     *)
(* more ASNs) yields the path minus its last element as the common run and *)
(* the second-to-last element as the bottleneck.                           *)
(***************************************************************************)
C7_SinglePathDropsLast ==
    \A a \in DOMAIN prefix_to_common_suffix :
        (Cardinality(mrt_hm[a]) = 1 /\ Len(OnlyPath(a)) >= 2) =>
            /\ prefix_to_common_suffix[a] = Front(OnlyPath(a))
            /\ a \in DOMAIN as_bottleneck =>
                  as_bottleneck[a] = OnlyPath(a)[Len(OnlyPath(a)) - 1]

(***************************************************************************)
(* C7, amended: a PathSet of exactly one path yields the entire path as    *)
(* the common run and, the path being non-empty, its last element as the   *)
(* bottleneck.                                                             *)
(***************************************************************************)
C7_SinglePathIsItsOwnRun ==
    /\ \A a \in DOMAIN prefix_to_common_suffix :
          Cardinality(mrt_hm[a]) = 1 => prefix_to_common_suffix[a] = OnlyPath(a)
    /\ \A a \in DOMAIN as_bottleneck :
          Cardinality(mrt_hm[a]) = 1 =>
              OnlyPath(a) # <<>> /\ as_bottleneck[a] = Last(OnlyPath(a))
    /\ pc = "done" => DOMAIN as_bottleneck = DOMAIN mrt_hm

C7_Witness ==
    /\ pc = "done"
    /\ \E a \in DOMAIN mrt_hm :
          /\ Cardinality(mrt_hm[a]) = 1
          /\ Len(OnlyPath(a)) = 3
          /\ OnlyPath(a)[2] # OnlyPath(a)[3]
          /\ prefix_to_common_suffix[a] = OnlyPath(a)
          /\ as_bottleneck[a] = OnlyPath(a)[3]

(***************************************************************************)
(* C9.  find_as_bottleneck leaves the map as it was, and when a call has   *)
(* returned a result, a further call on the same map, whatever order the   *)
(* HashMap and the HashSets yield their elements in, returns the same      *)
(* result (and does not panic).                                            *)
(***************************************************************************)
C9_SameResultInEveryOrder ==
    /\ mrt_hm = hm0
    /\ (prev.valid /\ pc \in {"done", "panic"}) =>
          (pc = "done" /\ as_bottleneck = prev.result)

C9_Witness ==
    /\ prev.valid
    /\ pc = "done"
    /\ as_bottleneck = prev.result
    /\ \E a \in DOMAIN mrt_hm : \E p, q \in mrt_hm[a] :
          p # q /\ Len(p) = Len(q) /\ Cardinality(mrt_hm[a]) = 3

(***************************************************************************)
(* C10.  The mismatch scan never reads a path out of range: whenever a     *)
(* path is about to be compared, the common run is no longer than it; the  *)
(* common run never grows while one PathSet is processed, and once a       *)
(* comparison has passed it holds at least one element.                    *)
(***************************************************************************)
C10_Inv ==
    /\ panic_kind # "index"
    /\ (pc = "scan" /\ idx <= Len(as_paths_sorted)) =>
          Len(rev_common_suffix) <= Len(as_paths_sorted[idx])
    /\ (pc = "scan" /\ idx > 2) => Len(rev_common_suffix) >= 1

C10_Step ==
    (pc = "scan" /\ pc' = "scan") => Len(rev_common_suffix') <= Len(rev_common_suffix)

C2_ReadPastEndIsDecodeError ==
    pc = "decoded" => decoded.tag \in {"Ok", "Err"}

(***************************************************************************)
(* C3.  A blob of skippable records and one AS_PATH record that carries    *)
(* only an AS_SET segment, nothing after it, decodes to the missing        *)
(* "AS Path" error.                                                        *)
(***************************************************************************)
C3_AsSetOnlyIsMissingAsPath ==
    (pc = "decoded" /\ input.kind = "set" /\ input.trail = <<>> /\ input.drop = 0) =>
        decoded = MissingPathAttribute("AS Path")

(***************************************************************************)
(* C8.  A blob of k complete skippable records, then an AS_PATH record     *)
(* that starts with an AS_SEQUENCE segment of N ASNs, then any bytes,      *)
(* decodes to exactly those N ASNs, in order and not deduplicated.         *)
(***************************************************************************)
C8_SequenceDecodesToItsAsns ==
    (pc = "decoded" /\ input.kind = "seq" /\ input.drop = 0) =>
        decoded = Ok(input.asns)

C8_Witness ==
    /\ pc = "decoded"
    /\ input.kind = "seq" /\ input.drop = 0
    /\ Len(input.skips) = 2
    /\ input.skips[1].ext /\ input.skips[1].len = 256
    /\ ~input.skips[2].ext /\ input.skips[2].len = 2
    /\ input.asns = <<3356, 3356>>
    /\ input.trail # <<>>
    /\ decoded = Ok(<<3356, 3356>>)

(***************************************************************************)
(* C4.  No RIB entry's blob stops the aggregation pass, and when the pass  *)
(* returns the map holds, per key, exactly the deduplicated paths of the   *)
(* well-formed entries for that key.                                       *)
(***************************************************************************)
C4_BadEntriesAreSkipped ==
    /\ pc = "panic" => panic_kind \notin {"remove", "split_off"}
    /\ pc = "ready" => mrt_hm = ExpectedMap

(***************************************************************************)
(* C6.  On a map built by the aggregation pass the empty-common-run panic  *)
(* of find_as_bottleneck cannot occur: every PathSet is non-empty and      *)
(* every common run whose last element is requested has one.               *)
(***************************************************************************)
C6_NoEmptyCommonRun ==
    /\ panic_kind # "no asn"
    /\ \A a \in DOMAIN mrt_hm : mrt_hm[a] # {}
    /\ pc = "pop" => \A a \in pop_todo : prefix_to_common_suffix[a] # <<>>

====
